---- MODULE Spec2Model ----
(***************************************************************************)
(* Weekly production scheduler (generateProductionPlan and its helpers).   *)
(*                                                                         *)
(* Representation.                                                         *)
(*  - A Date is an instant counted in half-days since the Monday 00:00 of  *)
(*    week 0: instant 2*d is the local midnight of day d, 2*d+1 any moment *)
(*    later on day d.  Line cursors are always midnights; deadlines and    *)
(*    the end of the week (Sunday 23:59:59.999) may be either.             *)
(*  - Hours and tons are exact rationals, kept as integers counted in      *)
(*    1/Scale hour and 1/Scale ton.                                        *)
(*  - Ids of lines and references are positive integers; 0 is null.        *)
(*  - A message of errors/warnings is a record of its kind and of the      *)
(*    numbers it prints; it also carries the position of the demand in     *)
(*    sortedDemands it was pushed for (0 for configuration messages).      *)
(*    PlanItems carry that position too (field demand).                    *)
(***************************************************************************)
EXTENDS Integers, Sequences, FiniteSets, TLC

VARIABLES
  state,             \* the AppState handed to generateProductionPlan
  now,               \* the wall-clock instant of the run (new Date())
  pc,                \* position in generateProductionPlan
  errors, warnings, planItems,
  sortedDemands,
  startDate, endDate,
  lineSchedules,     \* lineId -> LineSchedule
  di,                \* position of the current demand in sortedDemands
  remainingQuantity,
  effectiveDeadline,
  previous           \* what the call before this one returned, NoResult if none

vars == <<state, now, pc, errors, warnings, planItems, sortedDemands,
          startDate, endDate, lineSchedules, di, remainingQuantity,
          effectiveDeadline, previous>>

----------------------------------------------------------------------------
(* Bounds of the checked inputs *)

\* ids of the lines and of the references of the checked configurations, and
\* the lengths of their demand lists
LineIds == {1, 2}
RefIds == {1, 2}
DemandCounts == 0..2

MaxRate == 2
MaxHours == 2
MaxSetup == 2
MaxQuantity == 3


Max(a, b) == IF a >= b THEN a ELSE b
Min(a, b) == IF a <= b THEN a ELSE b

RECURSIVE Gcd(_, _)
Gcd(a, b) == IF b = 0 THEN a ELSE Gcd(b, a % b)

RECURSIVE LcmUpTo(_)
LcmUpTo(n) == IF n <= 1 THEN 1 ELSE LET l == LcmUpTo(n - 1) IN (l * n) \div Gcd(l, n)

RECURSIVE Pow(_, _)
Pow(b, e) == IF e = 0 THEN 1 ELSE b * Pow(b, e - 1)

\* units per hour and per ton: every quotient quantity/rate of a run is exact
Scale == Pow(LcmUpTo(MaxRate), Cardinality(DemandCounts) - 1)

----------------------------------------------------------------------------
(* Dates *)

\* Demand.deadline is optional: the value of a demand without one
NoDeadline == -1

\* Date.getDay(): 0 = Sunday .. 6 = Saturday (day 0 of the time line is a Monday)
getDay(date) == ((date \div 2) + 1) % 7

\* jsDayOfWeek === 0 ? 6 : jsDayOfWeek - 1   (0 = Monday .. 6 = Sunday)
euDayOfWeek(date) == LET jsDayOfWeek == getDay(date)
                      IN IF jsDayOfWeek = 0 THEN 6 ELSE jsDayOfWeek - 1

\* date.setDate(date.getDate() + n) on a copy of date
addDays(date, n) == date + 2 * n

\* date.setHours(0, 0, 0, 0) on a copy of date: the local midnight of its day
atMidnight(date) == 2 * (date \div 2)

\* getDateKey: the local calendar day (YYYY-MM-DD) of an instant
getDateKey(date) == date \div 2

\* a time stamp that keeps the day and drops the hour of the cursor
hourStampOfDayOnly(date, hours) == getDateKey(date) * 24

\* new Date(d).setHours(h): hours since day 0 of the instant shown by startTime /
\* endTime; setHours keeps the integral part of a fractional hour count
hourStamp(date, hours) == getDateKey(date) * 24 + (hours \div Scale)

----------------------------------------------------------------------------
(* Look-ups in the configuration *)

\* the null PlanItem
NoItem == [date |-> 0, lineId |-> 0, referenceId |-> 0, quantity |-> 0,
           duration |-> 0, startTime |-> 0, endTime |-> 0, isSetup |-> FALSE,
           demand |-> 0]

\* a look-up by the line alone
findThroughputOfLine(st, lineId, referenceId) ==
  {t \in st.throughputs : t.lineId = lineId}

findThroughput(st, lineId, referenceId) ==
  {t \in st.throughputs : t.lineId = lineId /\ t.referenceId = referenceId}

findAvailability(st, lineId, dayOfWeek) ==
  {a \in st.availabilities : a.lineId = lineId /\ a.dayOfWeek = dayOfWeek}

hoursAvailableOf(st, lineId, dayOfWeek) ==
  (CHOOSE a \in findAvailability(st, lineId, dayOfWeek) : TRUE).hoursAvailable * Scale

\* the rate of the first Throughput entry of the line, whatever its reference
rateOfLine(st, lineId, referenceId) ==
  (CHOOSE t \in {u \in st.throughputs : u.lineId = lineId} :
     \A u \in st.throughputs : u.lineId = lineId => t.referenceId <= u.referenceId).rate

rateOf(st, lineId, referenceId) ==
  (CHOOSE t \in findThroughput(st, lineId, referenceId) : TRUE).rate

\* a look-up that takes the entry of the opposite change of reference
getSetupTimeReversed(lineId, fromRefId, toRefId, st) ==
  LET found == {s \in st.setupTimes : /\ s.lineId = lineId
                                      /\ s.fromReferenceId = toRefId
                                      /\ s.toReferenceId = fromRefId}
  IN IF found = {} THEN 0 ELSE (CHOOSE s \in found : TRUE).duration * Scale

\* setupTime?.duration || 0, in 1/Scale hours
getSetupTime(lineId, fromRefId, toRefId, st) ==
  LET found == {s \in st.setupTimes : /\ s.lineId = lineId
                                      /\ s.fromReferenceId = fromRefId
                                      /\ s.toReferenceId = toRefId}
  IN IF found = {} THEN 0 ELSE (CHOOSE s \in found : TRUE).duration * Scale

\* schedule.dailyHoursUsed.get(dateKey) || 0
usedHoursOn(schedule, dateKey) ==
  IF dateKey \in DOMAIN schedule.dailyHoursUsed
  THEN schedule.dailyHoursUsed[dateKey] ELSE 0

\* the hours of the day without the hours already used on it
getAvailableHoursIgnoringUsed(schedule, lineId, st) ==
  LET dayOfWeek == euDayOfWeek(schedule.currentDate)
  IN IF findAvailability(st, lineId, dayOfWeek) = {} THEN 0
     ELSE hoursAvailableOf(st, lineId, dayOfWeek)

getAvailableHours(schedule, lineId, st) ==
  LET dateKey == getDateKey(schedule.currentDate)
      dayOfWeek == euDayOfWeek(schedule.currentDate)
      usedHours == usedHoursOn(schedule, dateKey)
  IN IF findAvailability(st, lineId, dayOfWeek) = {} THEN 0
     ELSE Max(0, hoursAvailableOf(st, lineId, dayOfWeek) - usedHours)

----------------------------------------------------------------------------
(* scheduleTask: the new LineSchedule and the PlanItem, or NoItem for null *)

nextDay(schedule) ==
  [schedule EXCEPT !.currentDate = addDays(@, 1), !.currentHour = 0]

placeTask(schedule, lineId, referenceId, quantity, duration, isSetup, demand) ==
  LET dateKey == getDateKey(schedule.currentDate)
      startTime == hourStamp(schedule.currentDate, schedule.currentHour)
      \* endTime.setHours(startTime.getHours() + duration)
      endTime == startTime + (duration \div Scale)
      usedHours == usedHoursOn(schedule, dateKey)
  IN [schedule |->
        [schedule EXCEPT
           !.currentHour = @ + duration,
           !.dailyHoursUsed =
              [k \in DOMAIN @ \cup {dateKey} |->
                 IF k = dateKey THEN usedHours + duration ELSE @[k]]],
      item |-> [date |-> dateKey, lineId |-> lineId, referenceId |-> referenceId,
                quantity |-> quantity, duration |-> duration,
                startTime |-> startTime, endTime |-> endTime,
                isSetup |-> isSetup, demand |-> demand]]

\* availableHours === 0 || duration > availableHours
mustMoveToNextDay(availableHours, duration) ==
  availableHours = 0 \/ duration > availableHours

\* a placement that lets a moved block end up on the day after the deadline
RECURSIVE scheduleTaskOneDayLate(_, _, _, _, _, _, _, _, _)
scheduleTaskOneDayLate(schedule, lineId, referenceId, quantity, duration, isSetup, st, end, demand) ==
  IF schedule.currentDate > end
  THEN [schedule |-> schedule, item |-> NoItem]
  ELSE IF mustMoveToNextDay(getAvailableHours(schedule, lineId, st), duration)
       THEN LET moved == nextDay(schedule)
            IN IF moved.currentDate > end
               THEN IF mustMoveToNextDay(getAvailableHours(moved, lineId, st), duration)
                    THEN [schedule |-> moved, item |-> NoItem]
                    ELSE placeTask(moved, lineId, referenceId, quantity, duration,
                                   isSetup, demand)
               ELSE scheduleTaskOneDayLate(moved, lineId, referenceId, quantity,
                                           duration, isSetup, st, end, demand)
       ELSE placeTask(schedule, lineId, referenceId, quantity, duration, isSetup, demand)

RECURSIVE scheduleTask(_, _, _, _, _, _, _, _, _)
scheduleTask(schedule, lineId, referenceId, quantity, duration, isSetup, st, end, demand) ==
  IF schedule.currentDate > end
  THEN [schedule |-> schedule, item |-> NoItem]
  ELSE IF mustMoveToNextDay(getAvailableHours(schedule, lineId, st), duration)
       THEN LET moved == nextDay(schedule)
            IN IF moved.currentDate > end
               THEN [schedule |-> moved, item |-> NoItem]
               ELSE scheduleTask(moved, lineId, referenceId, quantity, duration,
                                 isSetup, st, end, demand)
       ELSE placeTask(schedule, lineId, referenceId, quantity, duration, isSetup, demand)

----------------------------------------------------------------------------
(* findBestLine *)

\* weights of the cost function
ThroughputWeight == 1000
ContinueBonus == 100
SplitPenalty == 50
SetupWeight == 10
SubstantialHours == 24
ExhaustedHours == 1
DaysAhead == 7

\* hours left on checkDate for the line, 0 past the deadline or without an entry
capacityOn(schedule, lineId, st, checkDate, deadline) ==
  IF checkDate > deadline THEN 0
  ELSE LET dayOfWeek == euDayOfWeek(checkDate)
       IN IF findAvailability(st, lineId, dayOfWeek) = {} THEN 0
          ELSE Max(0, hoursAvailableOf(st, lineId, dayOfWeek)
                        - usedHoursOn(schedule, getDateKey(checkDate)))

\* Array.from({length: 7}, ...).reduce(sum)
RECURSIVE capacityOfDays(_, _, _, _, _)
capacityOfDays(schedule, lineId, st, deadline, dayIndex) ==
  IF dayIndex >= DaysAhead THEN 0
  ELSE capacityOn(schedule, lineId, st, addDays(schedule.currentDate, dayIndex), deadline)
       + capacityOfDays(schedule, lineId, st, deadline, dayIndex + 1)

totalCapacityLeft(schedule, lineId, st, deadline) ==
  capacityOfDays(schedule, lineId, st, deadline, 0)

\* while (tempDate <= effectiveDeadline) { ... tempDate.setDate(+1) }
RECURSIVE totalRemainingCapacity(_, _, _, _, _)
totalRemainingCapacity(schedule, lineId, st, deadline, tempDate) ==
  IF tempDate > deadline THEN 0
  ELSE capacityOn(schedule, lineId, st, tempDate, deadline)
       + totalRemainingCapacity(schedule, lineId, st, deadline, addDays(tempDate, 1))

\* planItems.filter(p => p.referenceId === referenceId && !p.isSetup).map(p => p.lineId)[0]
existingLineOf(items, referenceId) ==
  LET idx == {i \in 1..Len(items) :
                items[i].referenceId = referenceId /\ ~items[i].isSetup}
  IN IF idx = {} THEN 0
     ELSE items[CHOOSE i \in idx : \A j \in idx : i <= j].lineId

existingLineHasCapacity(existingLine, schedules, st, deadline) ==
  /\ existingLine # 0
  /\ existingLine \in DOMAIN schedules
  /\ schedules[existingLine].currentDate <= deadline
  /\ totalCapacityLeft(schedules[existingLine], existingLine, st, deadline)
       > SubstantialHours * Scale

\* the cost of a candidate line, times Scale
lineCost(lineId, referenceId, schedules, st, deadline, existingLine) ==
  LET schedule == schedules[lineId]
      throughputScore == 0 - rateOf(st, lineId, referenceId) * ThroughputWeight * Scale
      needsSetup == schedule.lastReferenceId # 0 /\ schedule.lastReferenceId # referenceId
      setupTime == IF needsSetup
                   THEN getSetupTime(lineId, schedule.lastReferenceId, referenceId, st)
                   ELSE 0
      continuation ==
        IF existingLine = lineId
        THEN IF totalCapacityLeft(schedule, lineId, st, deadline) > ExhaustedHours * Scale
             THEN 0 - ContinueBonus * Scale ELSE 0
        ELSE IF existingLine # 0
                /\ existingLineHasCapacity(existingLine, schedules, st, deadline)
             THEN SplitPenalty * Scale ELSE 0
      setupPenalty == continuation + setupTime * SetupWeight
  IN throughputScore + setupTime + setupPenalty

\* a line is a candidate when it has a throughput for the reference and capacity
\* left before the deadline
isCandidate(lineId, referenceId, schedules, st, deadline) ==
  /\ findThroughput(st, lineId, referenceId) # {}
  /\ totalRemainingCapacity(schedules[lineId], lineId, st, deadline,
                            schedules[lineId].currentDate) > 0

NoLine == [lineId |-> 0, cost |-> 0]

\* for (const [lineId, schedule] of lineSchedules): the lines in insertion order
RECURSIVE bestLineFrom(_, _, _, _, _, _, _, _)
bestLineFrom(i, best, order, referenceId, schedules, st, deadline, existingLine) ==
  IF i > Len(order) THEN best
  ELSE LET lineId == order[i]
           cost == lineCost(lineId, referenceId, schedules, st, deadline, existingLine)
           better == IF isCandidate(lineId, referenceId, schedules, st, deadline)
                        /\ (best = NoLine \/ cost < best.cost)
                     THEN [lineId |-> lineId, cost |-> cost]
                     ELSE best
       IN bestLineFrom(i + 1, better, order, referenceId, schedules, st, deadline,
                       existingLine)

findBestLine(referenceId, quantity, schedules, st, deadline, items) ==
  bestLineFrom(1, NoLine, st.lines, referenceId, schedules, st, deadline,
               existingLineOf(items, referenceId))

----------------------------------------------------------------------------
(* Diagnostics: the kind of a message and the numbers it prints *)

Msg(kind, demand, referenceId, scheduled, unmet) ==
  [kind |-> kind, demand |-> demand, referenceId |-> referenceId,
   scheduled |-> scheduled, unmet |-> unmet]

ConfigMsg(kind) == Msg(kind, 0, 0, 0, 0)

\* the checks without the one of the availability entries
fatalErrorWithoutAvailability(st) ==
  IF Len(st.lines) = 0 THEN "NoLines"
  ELSE IF Len(st.references) = 0 THEN "NoReferences"
  ELSE IF st.throughputs = {} THEN "NoThroughputs"
  ELSE IF Len(st.demands) = 0 THEN "NoDemands"
  ELSE ""

\* the first failing check of the configuration, "" when it passes
fatalError(st) ==
  IF Len(st.lines) = 0 THEN "NoLines"
  ELSE IF Len(st.references) = 0 THEN "NoReferences"
  ELSE IF st.throughputs = {} THEN "NoThroughputs"
  ELSE IF Len(st.demands) = 0 THEN "NoDemands"
  ELSE IF st.availabilities = {} THEN "NoAvailability"
  ELSE ""

----------------------------------------------------------------------------
(* sortedDemands: [...state.demands].sort(compare), a stable sort *)

hasDeadline(d) == d.deadline # NoDeadline

compareDemands(a, b) ==
  IF hasDeadline(a) /\ hasDeadline(b) THEN a.deadline - b.deadline
  ELSE IF hasDeadline(a) THEN 0 - 1
  ELSE IF hasDeadline(b) THEN 1
  ELSE b.quantity - a.quantity

\* x goes behind every element that does not compare greater than it
insertSorted(sorted, x) ==
  LET behind == {i \in 1..Len(sorted) : compareDemands(sorted[i], x) <= 0}
      k == IF behind = {} THEN 0 ELSE CHOOSE i \in behind : \A j \in behind : j <= i
  IN SubSeq(sorted, 1, k) \o <<x>> \o SubSeq(sorted, k + 1, Len(sorted))

RECURSIVE sortFrom(_, _, _)
sortFrom(demands, i, sorted) ==
  IF i > Len(demands) THEN sorted
  ELSE sortFrom(demands, i + 1, insertSorted(sorted, demands[i]))

sortDemands(demands) == sortFrom(demands, 1, <<>>)

\* a sort of state.demands itself, which Array.prototype.sort reorders in place
demandsSortedInPlace(demands) == sortDemands(demands)

\* state.demands after the sort: the sort is applied to the copy
\* [...state.demands], and the array of the caller keeps its order
demandsAfterSort(demands) == demands

----------------------------------------------------------------------------
(* The planned week *)

\* a week that starts on the day of the wall-clock instant
todayOf(clock) == atMidnight(clock)

\* Monday 00:00 of the week of the wall-clock instant
mondayOf(clock) ==
  LET today == atMidnight(clock)
      currentDay == getDay(today)
      daysToMonday == IF currentDay = 0 THEN 6 ELSE currentDay - 1
  IN addDays(today, 0 - daysToMonday)

\* an end of the week one day late
mondayEndAfter(monday) == addDays(monday, 7) + 1

\* Sunday 23:59:59.999 of the week that starts at monday
sundayEndOf(monday) == addDays(monday, 6) + 1

newLineSchedule(lineId, start) ==
  [lineId |-> lineId, currentDate |-> start, currentHour |-> 0,
   lastReferenceId |-> 0, dailyHoursUsed |-> << >>]

seqRange(q) == {q[i] : i \in 1..Len(q)}

----------------------------------------------------------------------------
(* One pass through the body of while (remainingQuantity > 0) *)

Outcome(schedules, items, errs, warns, remaining, stop) ==
  [schedules |-> schedules, items |-> items, errors |-> errs,
   warnings |-> warns, remaining |-> remaining, stop |-> stop]

\* an error whatever was placed for the demand before
noLineOutcomeAlwaysError(schedules, demand, k, remaining) ==
  Outcome(schedules, <<>>,
          <<Msg("CannotSchedule", k, demand.referenceId, 0, remaining)>>,
          <<>>, remaining, TRUE)

\* if (!bestLine): the error or the partial-fulfillment warning, and break
noLineOutcome(schedules, demand, k, remaining) ==
  LET initialQuantity == demand.quantity * Scale
  IN IF remaining = initialQuantity
     THEN Outcome(schedules, <<>>,
                  <<Msg("CannotSchedule", k, demand.referenceId, 0, remaining)>>,
                  <<>>, remaining, TRUE)
     ELSE Outcome(schedules, <<>>, <<>>,
                  <<Msg("PartialFulfillment", k, demand.referenceId,
                        initialQuantity - remaining, remaining)>>,
                  remaining, TRUE)

cannotFitRemaining(demand, k, remaining) ==
  Msg("CannotFitRemaining", k, demand.referenceId, 0, remaining)

\* the setup block of a change of reference: the schedule after scheduleTask,
\* the items pushed, and whether the pass breaks with the setup warning
needsSetupOnSameReference(schedule, referenceId) ==
  schedule.lastReferenceId # 0 /\ schedule.lastReferenceId = referenceId

needsSetup(schedule, referenceId) ==
  schedule.lastReferenceId # 0 /\ schedule.lastReferenceId # referenceId

setupStep(schedule, lineId, demand, k, st, deadline) ==
  IF needsSetup(schedule, demand.referenceId)
  THEN LET setupTime == getSetupTime(lineId, schedule.lastReferenceId,
                                     demand.referenceId, st)
           setupDuration == IF setupTime > 0 THEN setupTime ELSE 0
           setupResult == scheduleTask(schedule, lineId, demand.referenceId, 0,
                                       setupDuration, TRUE, st, deadline, k)
       IN IF setupResult.item # NoItem
          THEN [schedule |-> setupResult.schedule, items |-> <<setupResult.item>>,
                warnings |-> <<>>, stop |-> FALSE]
          ELSE IF setupDuration > 0
               THEN [schedule |-> setupResult.schedule, items |-> <<>>,
                     warnings |-> <<Msg("CannotFitSetup", k, demand.referenceId,
                                        0, setupDuration)>>,
                     stop |-> TRUE]
               ELSE [schedule |-> setupResult.schedule, items |-> <<>>,
                     warnings |-> <<>>, stop |-> FALSE]
  ELSE [schedule |-> schedule, items |-> <<>>, warnings |-> <<>>, stop |-> FALSE]

\* a day advance that leaves the cursor on its day
advanceStayingOnDay(schedule) == schedule

\* schedule.currentDate.setDate(schedule.currentDate.getDate() + 1);
\* schedule.currentHour = 0   (in the body of the while loop)
advanceToNextDay(schedule) ==
  [schedule EXCEPT !.currentDate = addDays(@, 1), !.currentHour = 0]

\* all the hours left on the day, whatever is left of the demand
hoursToUseUncapped(remaining, rate, availableHours) == availableHours

\* hoursToUse = Math.min(remainingQuantity / rate, availableHours)
hoursToUseFor(remaining, rate, availableHours) ==
  Min(remaining \div rate, availableHours)

\* from the computation of availableHours to the end of the body
productionStep(schedule, lineId, demand, k, st, deadline, remaining) ==
  LET availableHours == getAvailableHours(schedule, lineId, st)
  IN IF availableHours <= 0
     THEN \* advance to the next day; break when it is past the deadline
          LET moved == advanceToNextDay(schedule)
          IN [schedule |-> moved, items |-> <<>>, warnings |-> <<>>,
              remaining |-> remaining, stop |-> moved.currentDate > deadline]
     ELSE LET rate == rateOf(st, lineId, demand.referenceId)
              hoursToUse == hoursToUseFor(remaining, rate, availableHours)
              quantityToSchedule == hoursToUse * rate
              productionResult == scheduleTask(schedule, lineId, demand.referenceId,
                                               quantityToSchedule, hoursToUse, FALSE,
                                               st, deadline, k)
          IN IF productionResult.item # NoItem
             THEN LET produced == [productionResult.schedule
                                     EXCEPT !.lastReferenceId = demand.referenceId]
                      moved == advanceToNextDay(produced)
                  IN IF quantityToSchedule = 0
                     THEN [schedule |-> moved, items |-> <<productionResult.item>>,
                           warnings |-> <<>>,
                           remaining |-> remaining - quantityToSchedule,
                           stop |-> moved.currentDate > deadline]
                     ELSE [schedule |-> produced, items |-> <<productionResult.item>>,
                           warnings |-> <<>>,
                           remaining |-> remaining - quantityToSchedule,
                           stop |-> FALSE]
             ELSE [schedule |-> productionResult.schedule, items |-> <<>>,
                   warnings |-> <<cannotFitRemaining(demand, k, remaining)>>,
                   remaining |-> remaining, stop |-> TRUE]

whileBody(schedules, items, demand, k, st, deadline, remaining) ==
  LET bestLine == findBestLine(demand.referenceId, remaining, schedules, st,
                               deadline, items)
  IN IF bestLine = NoLine
     THEN noLineOutcome(schedules, demand, k, remaining)
     ELSE LET lineId == bestLine.lineId
              schedule == schedules[lineId]
          IN IF schedule.currentDate >= deadline
             THEN Outcome(schedules, <<>>, <<>>,
                          <<cannotFitRemaining(demand, k, remaining)>>,
                          remaining, TRUE)
             ELSE LET setup == setupStep(schedule, lineId, demand, k, st, deadline)
                  IN IF setup.stop
                     THEN Outcome([schedules EXCEPT ![lineId] = setup.schedule],
                                  setup.items, <<>>, setup.warnings, remaining, TRUE)
                     ELSE LET prod == productionStep(setup.schedule, lineId, demand,
                                                     k, st, deadline, remaining)
                          IN Outcome([schedules EXCEPT ![lineId] = prod.schedule],
                                     setup.items \o prod.items, <<>>,
                                     prod.warnings, prod.remaining, prod.stop)

----------------------------------------------------------------------------
(* The configurations checked *)

WeekDays == 0..6
RefPairs == {p \in RefIds \X RefIds : p[1] # p[2]}

idSeq(n) == [i \in 1..n |-> i]

\* A line of a configuration: its rate per reference (0: no Throughput entry),
\* its hours per day of the week (-1: no Availability entry) and its setup
\* hours per change of reference (-1: no SetupTime entry)
LineConfig(rates, hours, setups) ==
  [rates |-> rates, hours |-> hours, setups |-> setups]

throughputsOf(lc) ==
  {[lineId |-> l, referenceId |-> r, rate |-> lc[l].rates[r]] :
     <<l, r>> \in {q \in (DOMAIN lc) \X RefIds : lc[q[1]].rates[q[2]] > 0}}

availabilitiesOf(lc) ==
  {[lineId |-> l, dayOfWeek |-> d, hoursAvailable |-> lc[l].hours[d]] :
     <<l, d>> \in {q \in (DOMAIN lc) \X WeekDays : lc[q[1]].hours[q[2]] >= 0}}

setupTimesOf(lc) ==
  {[lineId |-> l, fromReferenceId |-> p[1], toReferenceId |-> p[2],
    duration |-> lc[l].setups[p]] :
     <<l, p>> \in {q \in (DOMAIN lc) \X RefPairs : lc[q[1]].setups[q[2]] >= 0}}

Hours(days, h, sunday) ==
  [d \in WeekDays |-> IF d = 6 /\ sunday >= 0 THEN sunday
                      ELSE IF d \in days THEN h ELSE 0 - 1]

\* every day 1 h; Monday and Tuesday MaxHours; Monday 1 h and Sunday MaxHours;
\* Monday 0 h and Tuesday 1 h; no entry
WeekProfiles ==
  {Hours(WeekDays, 1, 0 - 1), Hours({0, 1}, MaxHours, 0 - 1), Hours({0}, 1, MaxHours),
   [Hours({1}, 1, 0 - 1) EXCEPT ![0] = 0], Hours({}, 0, 0 - 1)}

\* changes to a higher reference take a hours, the others the next duration
SetupRow(a) ==
  [p \in RefPairs |-> IF a < 0 THEN a
                      ELSE IF p[1] < p[2] THEN a ELSE (a + 1) % (MaxSetup + 1)]

NoRates == [r \in RefIds |-> 0]

\* the first line: any profile, any setup row, a rate for the first reference
FirstLines ==
  {LineConfig([r \in RefIds |-> IF r = 1 THEN r1 ELSE IF r = 2 THEN r2 ELSE 0],
              hours, SetupRow(a)) :
     r1 \in {1, MaxRate}, r2 \in {0, 1}, hours \in WeekProfiles,
     a \in {0 - 1, 0, MaxSetup}}

\* the other lines: unused; or MaxRate for the first reference and 1 for the
\* others, MaxHours on Monday and 1 h on Sunday, setups from 1 h
OtherLines ==
  {LineConfig(NoRates, Hours({}, 0, 0 - 1), SetupRow(0 - 1)),
   LineConfig([r \in RefIds |-> IF r = 1 THEN MaxRate ELSE 1],
              Hours({0}, MaxHours, 1), SetupRow(1))}

LineConfigs ==
  {lc \in [LineIds -> FirstLines \cup OtherLines] :
     /\ lc[1] \in FirstLines
     /\ \A l \in LineIds \ {1} : lc[l] \in OtherLines}

\* wall-clock instants of the runs: Wednesday noon of week 1, whose Monday
\* 00:00 is instant 14
Clocks == {19}

\* deadlines: none, Monday noon, Tuesday 00:00, and the Wednesday after the
\* planned week
Deadlines == {NoDeadline, 15, 16, 32}

Demands == [referenceId : RefIds, quantity : {1, MaxQuantity}, deadline : Deadlines]

DemandLists == UNION {[1..n -> Demands] : n \in DemandCounts}

ConfigOf(lc, demands) ==
  [lines |-> idSeq(Cardinality(LineIds)), references |-> idSeq(Cardinality(RefIds)),
   throughputs |-> throughputsOf(lc),
   availabilities |-> availabilitiesOf(lc),
   setupTimes |-> setupTimesOf(lc),
   demands |-> demands]

FullConfigs == {ConfigOf(lc, demands) : lc \in LineConfigs, demands \in DemandLists}

\* configurations with one of the lists emptied
Emptied(c) ==
  {[c EXCEPT !.lines = <<>>], [c EXCEPT !.references = <<>>],
   [c EXCEPT !.throughputs = {}], [c EXCEPT !.availabilities = {}],
   [c EXCEPT !.setupTimes = {}]}

\* the configurations emptied: those of one demand of 1 ton without deadline
EmptiedBase ==
  {f \in FullConfigs :
     /\ Len(f.demands) = 1
     /\ f.demands[1].quantity = 1
     /\ f.demands[1].deadline = NoDeadline}

Configs == FullConfigs \cup UNION {Emptied(c) : c \in EmptiedBase}

----------------------------------------------------------------------------
(* generateProductionPlan *)

Result(items, errs, warns) == [planItems |-> items, errors |-> errs, warnings |-> warns]

NoResult == Result(<<>>, <<>>, <<>>)

InitWith(configs, clocks) ==
  /\ state \in configs
  /\ now \in clocks
  /\ previous = NoResult
  /\ pc = "start"
  /\ errors = <<>>
  /\ warnings = <<>>
  /\ planItems = <<>>
  /\ sortedDemands = <<>>
  /\ startDate = 0
  /\ endDate = 0
  /\ lineSchedules = <<>>
  /\ di = 0
  /\ remainingQuantity = 0
  /\ effectiveDeadline = 0

Init == InitWith(Configs, Clocks)

\* the validation of the configuration, the sort and the line schedules
Validate ==
  /\ pc = "start"
  /\ IF fatalError(state) # ""
     THEN /\ errors' = <<ConfigMsg(fatalError(state))>>
          /\ pc' = "done"
          /\ UNCHANGED <<state, warnings, sortedDemands, startDate, endDate, lineSchedules>>
     ELSE /\ warnings' = IF state.setupTimes = {}
                         THEN <<ConfigMsg("NoSetupTimes")>> ELSE <<>>
          /\ sortedDemands' = sortDemands(state.demands)
          /\ state' = [state EXCEPT !.demands = demandsAfterSort(@)]
          /\ startDate' = mondayOf(now)
          /\ endDate' = sundayEndOf(mondayOf(now))
          /\ lineSchedules' = [l \in seqRange(state.lines) |->
                                 newLineSchedule(l, mondayOf(now))]
          /\ pc' = "for"
          /\ UNCHANGED errors
  /\ UNCHANGED <<now, planItems, di, remainingQuantity, effectiveDeadline, previous>>

\* for (const demand of sortedDemands): the next demand
NextDemand ==
  /\ pc = "for"
  /\ di < Len(sortedDemands)
  /\ LET demand == sortedDemands[di + 1]
         deadlineDate == IF hasDeadline(demand) THEN demand.deadline ELSE endDate
     IN /\ di' = di + 1
        /\ remainingQuantity' = demand.quantity * Scale
        /\ effectiveDeadline' = IF deadlineDate < endDate THEN deadlineDate ELSE endDate
        /\ pc' = IF demand.quantity > 0 THEN "while" ELSE "for"
  /\ UNCHANGED <<state, now, errors, warnings, planItems, sortedDemands, startDate,
                 endDate, lineSchedules, previous>>

\* the body of the loop on the current demand and the current schedules
pass ==
  whileBody(lineSchedules, planItems, sortedDemands[di], di, state,
            effectiveDeadline, remainingQuantity)

\* the assignments of a pass whose outcome is out
applyOutcome(out) ==
  /\ lineSchedules' = out.schedules
  /\ planItems' = planItems \o out.items
  /\ errors' = errors \o out.errors
  /\ warnings' = warnings \o out.warnings
  /\ remainingQuantity' = out.remaining
  /\ pc' = IF out.stop \/ out.remaining <= 0 THEN "for" ELSE "while"

\* one pass of while (remainingQuantity > 0)
Iterate ==
  /\ pc = "while"
  /\ applyOutcome(pass)
  /\ UNCHANGED <<state, now, sortedDemands, startDate, endDate, di, effectiveDeadline,
                 previous>>

\* return { planItems, errors, warnings }
Return ==
  /\ pc = "for"
  /\ di = Len(sortedDemands)
  /\ pc' = "done"
  /\ UNCHANGED <<state, now, errors, warnings, planItems, sortedDemands, startDate,
                 endDate, lineSchedules, di, remainingQuantity, effectiveDeadline,
                 previous>>

Next == Validate \/ NextDemand \/ Iterate \/ Return

Spec == Init /\ [][Next]_vars

----------------------------------------------------------------------------
(* Two calls on the same AppState at two wall-clock instants *)

\* Wednesday noon and Sunday noon of week 1, Monday 00:00 and Wednesday noon
\* of week 2
ClockInstants == {19, 27, 28, 33}

ClockConfigs == {c \in FullConfigs : Len(c.demands) <= 1}

InitClock == InitWith(ClockConfigs, ClockInstants)

\* the caller keeps the result and calls generateProductionPlan(state) again,
\* at the same instant or later
CallAgain ==
  /\ pc = "done"
  /\ previous = NoResult
  /\ Result(planItems, errors, warnings) # NoResult
  /\ previous' = Result(planItems, errors, warnings)
  /\ now' \in {c \in ClockInstants : c >= now}
  /\ pc' = "start"
  /\ errors' = <<>>
  /\ warnings' = <<>>
  /\ planItems' = <<>>
  /\ sortedDemands' = <<>>
  /\ startDate' = 0
  /\ endDate' = 0
  /\ lineSchedules' = <<>>
  /\ di' = 0
  /\ remainingQuantity' = 0
  /\ effectiveDeadline' = 0
  /\ UNCHANGED state

NextClock == Next \/ CallAgain

SpecClock == InitClock /\ [][NextClock]_vars

----------------------------------------------------------------------------
(* Runs on one line and one reference, with one demand without deadline *)

\* the hours of the line per day of the week (-1: no Availability entry); an
\* entry of 0 hours on Monday only
OneLineHours ==
  {h \in [WeekDays -> {0 - 1, 0, 1, MaxHours}] : \A d \in WeekDays \ {0} : h[d] # 0}

\* no SetupTime entry, or one entry from the reference to itself
OneLineSetups ==
  {{}, {[lineId |-> 1, fromReferenceId |-> 1, toReferenceId |-> 1, duration |-> 1]}}

OneLineConfigs ==
  {[lines |-> <<1>>, references |-> <<1>>,
    throughputs |-> {[lineId |-> 1, referenceId |-> 1, rate |-> rate]},
    availabilities |-> {[lineId |-> 1, dayOfWeek |-> d, hoursAvailable |-> h[d]] :
                          d \in {e \in WeekDays : h[e] >= 0}},
    setupTimes |-> setups,
    demands |-> <<[referenceId |-> 1, quantity |-> quantity, deadline |-> NoDeadline]>>] :
     rate \in {1, MaxRate}, h \in OneLineHours, setups \in OneLineSetups,
     quantity \in {1, MaxQuantity, 2 * MaxQuantity}}

InitOneLine == InitWith(OneLineConfigs, Clocks)

SpecOneLine == InitOneLine /\ [][Next]_vars

----------------------------------------------------------------------------
(* Runs on three lines and two references *)

\* Monday 0 h and Tuesday 1 h; Monday 1 h and Tuesday MaxHours; Monday MaxHours
ThreeLineProfiles ==
  {[Hours({1}, 1, 0 - 1) EXCEPT ![0] = 0],
   [Hours({1}, MaxHours, 0 - 1) EXCEPT ![0] = 1],
   Hours({0}, MaxHours, 0 - 1)}

\* the first line makes both references at rate 1, the others the first
\* reference at rate 1 or MaxRate and the second at rate 1
ThreeLineRates ==
  {rates \in [1..3 -> [RefIds -> {1, MaxRate}]] :
     /\ rates[1][1] = 1
     /\ \A l \in 1..3 : rates[l][2] = 1}

\* one or two demands, without deadline or due on Monday noon
ThreeLineDemands ==
  LET demands == [referenceId : RefIds, quantity : {1, MaxQuantity},
                  deadline : {NoDeadline, 15}]
  IN UNION {[1..n -> demands] : n \in 1..2}

ThreeLineConfigs ==
  {[lines |-> <<1, 2, 3>>, references |-> idSeq(Cardinality(RefIds)),
    throughputs |-> throughputsOf([l \in 1..3 |->
                      LineConfig(rates[l], hours[l], SetupRow(setup))]),
    availabilities |-> availabilitiesOf([l \in 1..3 |->
                      LineConfig(rates[l], hours[l], SetupRow(setup))]),
    setupTimes |-> setupTimesOf([l \in 1..3 |->
                      LineConfig(rates[l], hours[l], SetupRow(setup))]),
    demands |-> demands] :
     rates \in ThreeLineRates, hours \in [1..3 -> ThreeLineProfiles],
     setup \in {0 - 1, 1}, demands \in ThreeLineDemands}

InitThreeLines == InitWith(ThreeLineConfigs, Clocks)

SpecThreeLines == InitThreeLines /\ [][Next]_vars

----------------------------------------------------------------------------
(* The store (AppContext) and the Generate Plan button of the Planner *)

\* the AppState of the store: the configuration with the stored plan and the
\* stored diagnostics
storedState(c) ==
  [lines |-> c.lines, references |-> c.references, throughputs |-> c.throughputs,
   availabilities |-> c.availabilities, setupTimes |-> c.setupTimes,
   demands |-> c.demands, planItems |-> <<>>, planErrors |-> <<>>,
   planWarnings |-> <<>>]

StoreConfigs == {storedState(c) : c \in ClockConfigs}

\* the first click on Generate Plan has just called generateProductionPlan
InitStore == InitWith(StoreConfigs, Clocks)

\* handleGeneratePlan around the call: the diagnostics are cleared, then set
\* when the result has some, and the plan is stored when it is not empty
StoreResult ==
  /\ pc = "done"
  /\ LET cleared == [state EXCEPT !.planErrors = <<>>, !.planWarnings = <<>>]
         withErrors == IF Len(errors) > 0
                       THEN [cleared EXCEPT !.planErrors = errors] ELSE cleared
         withWarnings == IF Len(warnings) > 0
                         THEN [withErrors EXCEPT !.planWarnings = warnings]
                         ELSE withErrors
     IN state' = IF Len(planItems) > 0
                 THEN [withWarnings EXCEPT !.planItems = planItems]
                 ELSE withWarnings
  /\ pc' = "idle"
  /\ UNCHANGED <<now, errors, warnings, planItems, sortedDemands, startDate, endDate,
                 lineSchedules, di, remainingQuantity, effectiveDeadline, previous>>

\* the next click on Generate Plan: a new call of generateProductionPlan(state)
GeneratePlan ==
  /\ pc = "idle"
  /\ pc' = "start"
  /\ errors' = <<>>
  /\ warnings' = <<>>
  /\ planItems' = <<>>
  /\ sortedDemands' = <<>>
  /\ startDate' = 0
  /\ endDate' = 0
  /\ lineSchedules' = <<>>
  /\ di' = 0
  /\ remainingQuantity' = 0
  /\ effectiveDeadline' = 0
  /\ UNCHANGED <<state, now, previous>>

deleteLine(st, id) ==
  LET kept(l) == l # id
  IN [st EXCEPT
        !.lines = SelectSeq(@, kept),
        !.throughputs = {t \in @ : t.lineId # id},
        !.availabilities = {a \in @ : a.lineId # id},
        !.setupTimes = {u \in @ : u.lineId # id}]

deleteReference(st, id) ==
  LET kept(r) == r # id
  IN [st EXCEPT
        !.references = SelectSeq(@, kept),
        !.throughputs = {t \in @ : t.referenceId # id},
        !.setupTimes = {u \in @ : u.fromReferenceId # id /\ u.toReferenceId # id}]

runLocals == <<now, errors, warnings, planItems, sortedDemands, startDate, endDate,
               lineSchedules, di, remainingQuantity, effectiveDeadline, previous>>

DeleteLine ==
  /\ pc = "idle"
  /\ \E id \in seqRange(state.lines) : state' = deleteLine(state, id)
  /\ UNCHANGED pc
  /\ UNCHANGED runLocals

DeleteReference ==
  /\ pc = "idle"
  /\ \E id \in seqRange(state.references) : state' = deleteReference(state, id)
  /\ UNCHANGED pc
  /\ UNCHANGED runLocals

NextStore == Next \/ StoreResult \/ GeneratePlan \/ DeleteLine \/ DeleteReference

SpecStore == InitStore /\ [][NextStore]_vars

----------------------------------------------------------------------------
(* Quantities read off a run *)

RECURSIVE sumSeq(_)
sumSeq(q) == IF Len(q) = 0 THEN 0 ELSE Head(q) + sumSeq(Tail(q))

itemIndexes == 1..Len(planItems)

productionOf(items) == {i \in 1..Len(items) : ~items[i].isSetup}

\* hours of the blocks placed on a line and a calendar day
hoursPlacedOn(lineId, dateKey) ==
  sumSeq([i \in itemIndexes |->
            IF planItems[i].lineId = lineId /\ planItems[i].date = dateKey
            THEN planItems[i].duration ELSE 0])

\* hoursAvailable of the line on the week day of a calendar day, 0 without entry
configuredHours(lineId, dateKey) ==
  LET dayOfWeek == dateKey % 7
      entries == {a \in state.availabilities :
                    a.lineId = lineId /\ a.dayOfWeek = dayOfWeek}
  IN IF entries = {} THEN 0
     ELSE (CHOOSE a \in entries : TRUE).hoursAvailable * Scale

\* tons of the production blocks of a reference
producedOf(referenceId) ==
  sumSeq([i \in itemIndexes |->
            IF ~planItems[i].isSetup /\ planItems[i].referenceId = referenceId
            THEN planItems[i].quantity ELSE 0])

demandedOf(referenceId) ==
  sumSeq([i \in 1..Len(state.demands) |->
            IF state.demands[i].referenceId = referenceId
            THEN state.demands[i].quantity * Scale ELSE 0])

\* tons of the production blocks placed for the k-th demand of sortedDemands
scheduledOf(k) ==
  sumSeq([i \in itemIndexes |->
            IF ~planItems[i].isSetup /\ planItems[i].demand = k
            THEN planItems[i].quantity ELSE 0])

namesDemand(messages, k) == \E i \in 1..Len(messages) : messages[i].demand = k

finished == pc = "done"

TypeOK == pc \in {"start", "for", "while", "done", "idle"}

\* every quotient remainingQuantity / rate taken by a run is exact in 1/Scale
ExactQuotients ==
  pc = "while" =>
    \A t \in state.throughputs :
      t.referenceId = sortedDemands[di].referenceId => remainingQuantity % t.rate = 0

----------------------------------------------------------------------------
(* C1 *)

\* C1: at any point of a run, the durations of the PlanItems (setup and
\* production) of a line on a calendar day sum to at most the hoursAvailable
\* configured for the line on that day of the week, 0 when there is no entry.
C1_DailyHoursWithinAvailability ==
  \A lineId \in LineIds :
    \A i \in itemIndexes :
      hoursPlacedOn(lineId, planItems[i].date)
        <= configuredHours(lineId, planItems[i].date)

\* a finished run that filled a day of a line to its last hour with two blocks
C1_Witness ==
  /\ finished
  /\ \E i, j \in itemIndexes :
       /\ i # j
       /\ planItems[i].lineId = planItems[j].lineId
       /\ planItems[i].date = planItems[j].date
       /\ planItems[i].duration > 0
       /\ planItems[j].duration > 0
       /\ hoursPlacedOn(planItems[i].lineId, planItems[i].date)
            = configuredHours(planItems[i].lineId, planItems[i].date)

----------------------------------------------------------------------------
(* C2 *)

\* C2: the tons of the production PlanItems of a reference never exceed the
\* tons demanded for it, whatever lines and days they are spread over.
C2_NoOverProduction ==
  \A referenceId \in RefIds : producedOf(referenceId) <= demandedOf(referenceId)

\* a finished run that produced all the demanded tons of a reference on two
\* lines and two days
C2_Witness ==
  /\ finished
  /\ \E i, j \in productionOf(planItems) :
       /\ planItems[i].referenceId = planItems[j].referenceId
       /\ planItems[i].lineId # planItems[j].lineId
       /\ planItems[i].date # planItems[j].date
       /\ producedOf(planItems[i].referenceId) = demandedOf(planItems[i].referenceId)

----------------------------------------------------------------------------
(* C3 *)

unreported(k) == ~namesDemand(errors, k) /\ ~namesDemand(warnings, k)

\* C3: in a finished run that passed the validation, every demand without an
\* error and without a warning of its own is scheduled in full.
C3_UnreportedMeansFull ==
  (finished /\ fatalError(state) = "") =>
    \A k \in 1..Len(sortedDemands) :
      unreported(k) => scheduledOf(k) = sortedDemands[k].quantity * Scale

----------------------------------------------------------------------------
(* C4 *)

\* C4: in a finished run, a demand named by a warning has some but not all of
\* its tons scheduled.
C4_WarningMeansPartial ==
  finished =>
    \A k \in 1..Len(sortedDemands) :
      namesDemand(warnings, k) =>
        /\ scheduledOf(k) > 0
        /\ scheduledOf(k) < sortedDemands[k].quantity * Scale

----------------------------------------------------------------------------
(* C5 *)

\* C5: a demand named by an error has no production PlanItem, during the run
\* and at its end.
C5_ErrorMeansNothingPlaced ==
  \A k \in 1..Len(sortedDemands) :
    namesDemand(errors, k) => \A i \in productionOf(planItems) : planItems[i].demand # k

\* a finished run with an error for one demand, production for another one,
\* and a setup block placed for the demand of the error
C5_Witness ==
  /\ finished
  /\ \E k \in 1..Len(sortedDemands) :
       /\ namesDemand(errors, k)
       /\ \E i \in productionOf(planItems) : planItems[i].demand # k
       /\ \E i \in itemIndexes : planItems[i].isSetup /\ planItems[i].demand = k

----------------------------------------------------------------------------
(* C6 *)

someListEmpty ==
  \/ Len(state.lines) = 0
  \/ Len(state.references) = 0
  \/ state.throughputs = {}
  \/ Len(state.demands) = 0
  \/ state.availabilities = {}

\* C6: a run on a configuration without lines, references, throughputs,
\* demands or availability entries returns no PlanItem, exactly one error and
\* no warning, with or without setup times.
C6_EmptyListIsFatal ==
  (finished /\ someListEmpty) =>
    /\ planItems = <<>>
    /\ Len(errors) = 1
    /\ warnings = <<>>

\* a finished run on a configuration whose only empty lists are the
\* availability entries and the setup times
C6_Witness ==
  /\ finished
  /\ state.availabilities = {}
  /\ state.setupTimes = {}
  /\ Len(state.lines) > 0
  /\ Len(state.references) > 0
  /\ state.throughputs # {}
  /\ Len(state.demands) > 0

----------------------------------------------------------------------------
(* C7 *)

\* C7: a second call on the same configuration returns the planItems, errors
\* and warnings of the first one, whenever it is made.
C7_SameInputSameOutput ==
  (finished /\ previous # NoResult) =>
    previous = Result(planItems, errors, warnings)

\* two calls made in the same Monday-to-Sunday week return the same result
SameWeekSameOutput ==
  (finished /\ previous # NoResult /\ now < 28) =>
    previous = Result(planItems, errors, warnings)

----------------------------------------------------------------------------
(* C8 *)

productionCount(items) == Cardinality(productionOf(items))

someCursorAdvanced ==
  \E lineId \in DOMAIN lineSchedules :
    lineSchedules'[lineId].currentDate > lineSchedules[lineId].currentDate

\* the latest day a cursor can reach: scheduleTask stops at the first day past
\* the week, and the loop body advances one more day at most
lastCursorDate == addDays(startDate, 8)

\* what is left to do for the current demand: its tons to place and the days
\* the cursors can still advance
variant ==
  remainingQuantity
    + sumSeq([i \in 1..Len(state.lines) |->
                lastCursorDate - lineSchedules[state.lines[i]].currentDate])

\* C8: every run terminates. Every pass of the loop of a demand changes the
\* state and places production, moves the cursor of a line to a later day, or
\* ends the demand; a pass that stays in the loop lowers a natural number (the
\* tons left plus the days left to the cursors, which never pass the day after
\* the week by more than one day); every demand is entered once.
C8_EveryRunTerminates ==
  /\ [](pc \in {"for", "while"} =>
          \A lineId \in DOMAIN lineSchedules :
            lineSchedules[lineId].currentDate <= lastCursorDate)
  /\ [](pc = "while" =>
          /\ remainingQuantity > 0
          /\ \/ pass.stop
             \/ pass.remaining < remainingQuantity
             \/ pass.schedules # lineSchedules)
  /\ [][pc = "while" =>
          /\ \/ pc' = "for"
             \/ productionCount(planItems') > productionCount(planItems)
             \/ someCursorAdvanced
          /\ pc' \in {"for", "while"}
          /\ pc' = "while" => variant' < variant]_vars
  /\ [][(pc = "for" /\ pc' # "done") =>
          (pc' \in {"for", "while"} /\ di' = di + 1 /\ di' <= Len(sortedDemands))]_vars
  /\ [][pc = "start" => pc' \in {"for", "done"}]_vars

\* a finished run in which the cursor of a line has left the planned week and
\* a demand stays unmet
C8_Witness ==
  /\ finished
  /\ \E lineId \in DOMAIN lineSchedules : lineSchedules[lineId].currentDate > endDate
  /\ \E k \in 1..Len(sortedDemands) :
       /\ scheduledOf(k) > 0
       /\ scheduledOf(k) < sortedDemands[k].quantity * Scale

----------------------------------------------------------------------------
(* C9 *)

inOrder(a, b) ==
  /\ a.endTime <= b.startTime
  /\ \/ a.date < b.date
     \/ a.date = b.date /\ a.startTime <= b.startTime

cursorsNeverGoBack ==
  \A lineId \in DOMAIN lineSchedules :
    lineId \in DOMAIN lineSchedules' =>
      lineSchedules'[lineId].currentDate >= lineSchedules[lineId].currentDate

\* C9: of two PlanItems of a line, the one emitted first ends no later than
\* the other starts and precedes it by (date, startTime); the cursor date of a
\* line never moves backwards during a run.
C9_NoOverlapInOrder ==
  /\ [](\A i, j \in itemIndexes :
          (i < j /\ planItems[i].lineId = planItems[j].lineId) =>
            inOrder(planItems[i], planItems[j]))
  /\ [][pc # "done" => cursorsNeverGoBack]_vars

\* a finished run with three blocks on a line, two on one day one after the
\* other and one on a later day
C9_Witness ==
  /\ finished
  /\ \E i, j, k \in itemIndexes :
       /\ i < j /\ j < k
       /\ planItems[i].lineId = planItems[j].lineId
       /\ planItems[j].lineId = planItems[k].lineId
       /\ planItems[i].date = planItems[j].date
       /\ planItems[i].endTime > planItems[i].startTime
       /\ planItems[j].startTime > planItems[i].startTime
       /\ planItems[k].date > planItems[j].date

----------------------------------------------------------------------------
(* C10 *)

\* the duration of the SetupTime entry of a change of reference, 0 without entry
configuredSetup(lineId, fromRefId, toRefId) ==
  LET entries == {e \in state.setupTimes : /\ e.lineId = lineId
                                           /\ e.fromReferenceId = fromRefId
                                           /\ e.toReferenceId = toRefId}
  IN IF entries = {} THEN 0 ELSE (CHOOSE e \in entries : TRUE).duration * Scale

\* the position of the last item of the line before position n, 0 if none
lastOfLineBefore(items, lineId, n) ==
  LET before == {m \in 1..(n - 1) : items[m].lineId = lineId}
  IN IF before = {} THEN 0 ELSE CHOOSE m \in before : \A o \in before : o <= m

\* C10: a production PlanItem placed on a line whose last-produced reference
\* is another one comes right after a setup PlanItem of that line for the new
\* reference, of quantity 0 and of the configured duration (0 without entry).
C10_SetupBeforeChangeover ==
  [][\A n \in (Len(planItems) + 1)..Len(planItems') :
       LET p == planItems'[n]
           last == lineSchedules[p.lineId].lastReferenceId
           m == lastOfLineBefore(planItems', p.lineId, n)
       IN (~p.isSetup /\ last # 0 /\ last # p.referenceId) =>
            /\ m # 0
            /\ planItems'[m].isSetup
            /\ planItems'[m].referenceId = p.referenceId
            /\ planItems'[m].quantity = 0
            /\ planItems'[m].duration = configuredSetup(p.lineId, last, p.referenceId)]_vars

\* a zero-duration setup marker followed on its line by the production of the
\* new reference, after the production of another reference
C10_Witness ==
  \E h, m, n \in itemIndexes :
    /\ h < m /\ m < n
    /\ planItems[h].lineId = planItems[n].lineId
    /\ ~planItems[h].isSetup
    /\ planItems[h].referenceId # planItems[n].referenceId
    /\ m = lastOfLineBefore(planItems, planItems[n].lineId, n)
    /\ planItems[m].isSetup
    /\ planItems[m].duration = 0
    /\ ~planItems[n].isSetup

----------------------------------------------------------------------------
(* C11 *)

\* the positions of the setup blocks of a line between positions lo and hi
setupsBetween(items, lineId, lo, hi) ==
  {m \in (lo + 1)..(hi - 1) : items[m].lineId = lineId /\ items[m].isSetup}

\* the position of the last production block of the line before position n,
\* 0 if none
lastProductionBefore(items, lineId, n) ==
  LET before == {m \in 1..(n - 1) : items[m].lineId = lineId /\ ~items[m].isSetup}
  IN IF before = {} THEN 0 ELSE CHOOSE m \in before : \A o \in before : o <= m

\* C11: on every line, at most one setup block lies between a production
\* block and the next production block of the line, and none before the first
\* production block of the line.
C11_OneSetupPerChangeover ==
  \A n \in productionOf(planItems) :
    LET lineId == planItems[n].lineId
        h == lastProductionBefore(planItems, lineId, n)
    IN Cardinality(setupsBetween(planItems, lineId, h, n)) <= (IF h = 0 THEN 0 ELSE 1)

\* no setup block comes before the first production block of a line
NoSetupBeforeFirstProduction ==
  \A n \in productionOf(planItems) :
    lastProductionBefore(planItems, planItems[n].lineId, n) = 0 =>
      setupsBetween(planItems, planItems[n].lineId, 0, n) = {}

----------------------------------------------------------------------------
(* C12 *)

\* the calendar day of the Monday of the week of the wall clock
plannedMonday == getDateKey(now) - (getDateKey(now) % 7)

\* C12: every PlanItem, setup or production, is dated from the Monday to
\* the Sunday of the planned week, whatever the deadline of its demand.
C12_ItemsWithinPlannedWeek ==
  \A i \in itemIndexes :
    /\ planItems[i].date >= plannedMonday
    /\ planItems[i].date <= plannedMonday + 6

\* a finished run with a block on the Sunday of the week for a demand whose
\* deadline is after the week, and another demand left unmet
C12_Witness ==
  /\ finished
  /\ \E i \in itemIndexes :
       /\ planItems[i].date = plannedMonday + 6
       /\ sortedDemands[planItems[i].demand].deadline > endDate
  /\ \E k \in 1..Len(sortedDemands) :
       scheduledOf(k) < sortedDemands[k].quantity * Scale

----------------------------------------------------------------------------
(* C13 *)

\* hours of the line not yet used from the day of its cursor to the Sunday of
\* the planned week
hoursLeftInWeek(lineId) ==
  LET days == getDateKey(lineSchedules[lineId].currentDate)..(plannedMonday + 6)
  IN sumSeq([n \in 1..Cardinality(days) |->
               LET dateKey == getDateKey(lineSchedules[lineId].currentDate) + n - 1
               IN Max(0, configuredHours(lineId, dateKey) - hoursPlacedOn(lineId, dateKey))])

\* C13: at the end of a run that passed the validation, a demand with unmet
\* tons leaves no hours, from the cursor to the end of the week, on any line
\* with a Throughput entry for its reference.
C13_NoShortfallWithCapacityLeft ==
  (finished /\ fatalError(state) = "") =>
    \A k \in 1..Len(sortedDemands) :
      scheduledOf(k) < sortedDemands[k].quantity * Scale =>
        \A lineId \in DOMAIN lineSchedules :
          findThroughput(state, lineId, sortedDemands[k].referenceId) # {} =>
            hoursLeftInWeek(lineId) = 0

----------------------------------------------------------------------------
(* C14 *)

\* tons the line can produce of the reference in the planned week
weeklyOutput(lineId, referenceId) ==
  IF findThroughput(state, lineId, referenceId) = {} THEN 0
  ELSE rateOf(state, lineId, referenceId)
         * sumSeq([n \in 1..7 |-> configuredHours(lineId, plannedMonday + n - 1)])

\* hours of the production blocks of the plan
productionHours ==
  sumSeq([i \in itemIndexes |-> IF planItems[i].isSetup THEN 0 ELSE planItems[i].duration])

\* the production fills the days of the line in turn: a day before the day of
\* the last block has no hour left
daysFilledInTurn(lineId) ==
  \A i \in itemIndexes :
    \A dateKey \in plannedMonday..(planItems[i].date - 1) :
      hoursPlacedOn(lineId, dateKey) = configuredHours(lineId, dateKey)

\* one line, one reference, one demand without deadline that the week can hold
oneLineCase ==
  /\ finished
  /\ Len(state.lines) = 1 /\ Len(state.references) = 1 /\ Len(state.demands) = 1
  /\ state.demands[1].deadline = NoDeadline
  /\ weeklyOutput(1, 1) >= state.demands[1].quantity * Scale

\* the demand is scheduled in full in quantity / rate hours on days in turn
oneLineFull ==
  /\ scheduledOf(1) = state.demands[1].quantity * Scale
  /\ productionHours * rateOf(state, 1, 1) = state.demands[1].quantity * Scale
  /\ daysFilledInTurn(1)
  /\ errors = <<>>

----------------------------------------------------------------------------
(* C15 *)

\* tons all the lines can produce of the reference in the planned week
combinedOutput(referenceId) ==
  sumSeq([i \in 1..Len(state.lines) |-> weeklyOutput(state.lines[i], referenceId)])

\* the warnings that name the k-th demand
warningsOf(k) == {i \in 1..Len(warnings) : warnings[i].demand = k}

\* C15: at the end of a run that passed the validation, a demand of more tons
\* than all the lines can produce of its reference in the week has exactly one
\* warning, a partial fulfillment, whose unmet tons are the tons demanded less
\* that weekly output.
C15_ShortfallIsDemandLessOutput ==
  (finished /\ fatalError(state) = "") =>
    \A k \in 1..Len(sortedDemands) :
      LET output == combinedOutput(sortedDemands[k].referenceId)
          quantity == sortedDemands[k].quantity * Scale
      IN (output > 0 /\ quantity > output) =>
           /\ Cardinality(warningsOf(k)) = 1
           /\ \A i \in warningsOf(k) :
                /\ warnings[i].kind = "PartialFulfillment"
                /\ warnings[i].unmet = quantity - output

----------------------------------------------------------------------------
(* C16 *)

\* the production blocks of a line that follow a production block of another
\* reference on that line
changeovers ==
  {n \in productionOf(planItems) :
     LET h == lastProductionBefore(planItems, planItems[n].lineId, n)
     IN h # 0 /\ planItems[h].referenceId # planItems[n].referenceId}

\* C16: a run on a valid configuration without setup times has exactly one
\* warning about the missing setup times, and every production block that
\* changes the reference of its line comes right after a setup block of that
\* line for the new reference, of duration 0 and quantity 0.
C16_NoSetupTimesZeroMarkers ==
  (pc # "start" /\ fatalError(state) = "" /\ state.setupTimes = {}) =>
    /\ Cardinality({i \in 1..Len(warnings) : warnings[i].kind = "NoSetupTimes"}) = 1
    /\ \A n \in changeovers :
         LET m == lastOfLineBefore(planItems, planItems[n].lineId, n)
         IN /\ m # 0
            /\ planItems[m].isSetup
            /\ planItems[m].referenceId = planItems[n].referenceId
            /\ planItems[m].duration = 0
            /\ planItems[m].quantity = 0

\* a finished run without setup times with a change of reference on a line
\* and a warning about a demand besides the one about the setup times
C16_Witness ==
  /\ finished
  /\ state.setupTimes = {}
  /\ changeovers # {}
  /\ Len(warnings) >= 2

----------------------------------------------------------------------------
(* C17 *)

\* C17: no step of a run changes the configuration passed to it: the lists of
\* lines, references, throughputs, availabilities, setup times and demands
\* keep their elements and their order, and the demands their quantities and
\* deadlines.
C17_InputNotMutated ==
  [][state' = state]_vars

\* a finished run that processed the demands in another order than the one
\* of the input and placed part of a demand
C17_Witness ==
  /\ finished
  /\ sortedDemands # state.demands
  /\ Len(sortedDemands) = Len(state.demands)
  /\ \E k \in 1..Len(sortedDemands) :
       /\ scheduledOf(k) > 0
       /\ scheduledOf(k) < sortedDemands[k].quantity * Scale

----------------------------------------------------------------------------
(* C18 *)

\* C18: the quantity of a production block is its duration times the rate of
\* the Throughput entry of its line and reference, and the quantity of a
\* setup block is 0.
C18_QuantityIsDurationTimesRate ==
  \A i \in itemIndexes :
    IF planItems[i].isSetup
    THEN planItems[i].quantity = 0
    ELSE \E t \in state.throughputs :
           /\ t.lineId = planItems[i].lineId
           /\ t.referenceId = planItems[i].referenceId
           /\ planItems[i].quantity = planItems[i].duration * t.rate

\* a finished run with a setup block that takes time and production blocks
\* of a line at two different rates
C18_Witness ==
  /\ finished
  /\ \E i \in itemIndexes : planItems[i].isSetup /\ planItems[i].duration > 0
  /\ \E i, j \in productionOf(planItems) :
       /\ planItems[i].lineId = planItems[j].lineId
       /\ planItems[i].quantity * planItems[j].duration
            # planItems[j].quantity * planItems[i].duration

----------------------------------------------------------------------------
(* C19 *)

\* a goes strictly before b: a deadline before none, the earlier deadline
\* first, and the larger quantity first among demands equal on the deadline
strictlyBefore(a, b) ==
  IF hasDeadline(a) # hasDeadline(b) THEN hasDeadline(a)
  ELSE IF a.deadline # b.deadline THEN a.deadline < b.deadline
  ELSE a.quantity > b.quantity

\* the one-to-one mappings of the processing order onto the input order
inputPositions ==
  {p \in [1..Len(sortedDemands) -> 1..Len(state.demands)] :
     /\ \A i, j \in 1..Len(sortedDemands) : i # j => p[i] # p[j]
     /\ \A i \in 1..Len(sortedDemands) : sortedDemands[i] = state.demands[p[i]]}

\* C19: the demands are processed in the stable order of (has a deadline,
\* ascending deadline, descending quantity): no demand is processed after one
\* that it goes strictly before, and demands equal on all keys keep their
\* input order.
C19_ProcessingOrder ==
  (pc # "start" /\ fatalError(state) = "") =>
    /\ Len(sortedDemands) = Len(state.demands)
    /\ \E p \in inputPositions :
         \A i, j \in 1..Len(sortedDemands) :
           i < j => /\ ~strictlyBefore(sortedDemands[j], sortedDemands[i])
                    /\ ~strictlyBefore(sortedDemands[i], sortedDemands[j]) => p[i] < p[j]

----------------------------------------------------------------------------
(* C20 *)

\* the line that already produces the reference of the demand in turn
stickyLine == existingLineOf(planItems, sortedDemands[di].referenceId)

\* what the sticky line can still produce of the reference before the
\* effective deadline, in tons times Scale
stickyOutput ==
  rateOf(state, stickyLine, sortedDemands[di].referenceId)
    * totalRemainingCapacity(lineSchedules[stickyLine], stickyLine, state,
                             effectiveDeadline, lineSchedules[stickyLine].currentDate)

\* the line in turn stays: its cursor is not after the effective deadline and
\* it can still produce half of the remaining quantity
stickyLineHolds ==
  /\ pc = "while"
  /\ stickyLine # 0
  /\ lineSchedules[stickyLine].currentDate <= effectiveDeadline
  /\ 2 * stickyOutput >= remainingQuantity

\* C20: when the reference of the demand in turn already has a production
\* block on a line whose cursor is not after the effective deadline and which
\* can still produce at least half of the remaining quantity before it, that
\* line is the one selected for the remaining quantity.
C20_StickinessWinsOverThroughput ==
  stickyLineHolds =>
    findBestLine(sortedDemands[di].referenceId, remainingQuantity, lineSchedules,
                 state, effectiveDeadline, planItems).lineId = stickyLine

----------------------------------------------------------------------------
(* C21 *)

\* the reference of the demand in turn and the line findBestLine returns for
\* what remains of it
referenceInTurn == sortedDemands[di].referenceId

selectedLine ==
  findBestLine(referenceInTurn, remainingQuantity, lineSchedules, state,
               effectiveDeadline, planItems).lineId

compatibleLines(referenceId) ==
  {l \in DOMAIN lineSchedules : findThroughput(state, l, referenceId) # {}}

RECURSIVE weeklyHoursFrom(_, _)
weeklyHoursFrom(lineId, day) ==
  IF day > 6 THEN 0
  ELSE (IF findAvailability(state, lineId, day) = {} THEN 0
        ELSE hoursAvailableOf(state, lineId, day))
       + weeklyHoursFrom(lineId, day + 1)

\* what the line produces of the reference in a whole week, in tons times Scale
totalCapacityTons(lineId, referenceId) ==
  rateOf(state, lineId, referenceId) * weeklyHoursFrom(lineId, 0)

\* the compatible lines of the highest rate and, among these, of the highest
\* weekly capacity in tons
preferredLines(referenceId) ==
  {l \in compatibleLines(referenceId) :
     \A m \in compatibleLines(referenceId) :
       \/ rateOf(state, l, referenceId) > rateOf(state, m, referenceId)
       \/ /\ rateOf(state, l, referenceId) = rateOf(state, m, referenceId)
          /\ totalCapacityTons(l, referenceId) >= totalCapacityTons(m, referenceId)}

\* C21: for a reference without production so far, the selected line is the
\* preferred line of the reference (highest rate, then highest weekly
\* capacity in tons) whenever that line has capacity left before the
\* effective deadline.
C21_PreferredLineSelected ==
  (/\ pc = "while"
   /\ existingLineOf(planItems, referenceInTurn) = 0
   /\ \E l \in preferredLines(referenceInTurn) :
        isCandidate(l, referenceInTurn, lineSchedules, state, effectiveDeadline))
  => selectedLine \in preferredLines(referenceInTurn)

----------------------------------------------------------------------------
(* C22 *)

\* the lines with a Throughput entry for the reference in turn and capacity
\* left before the effective deadline
candidateLines ==
  {l \in DOMAIN lineSchedules :
     isCandidate(l, referenceInTurn, lineSchedules, state, effectiveDeadline)}

\* the setup hours the line needs to change to the reference in turn
setupTimeTo(lineId) ==
  IF lineSchedules[lineId].lastReferenceId # 0
     /\ lineSchedules[lineId].lastReferenceId # referenceInTurn
  THEN getSetupTime(lineId, lineSchedules[lineId].lastReferenceId, referenceInTurn, state)
  ELSE 0

remainingCapacityOf(lineId) ==
  totalRemainingCapacity(lineSchedules[lineId], lineId, state, effectiveDeadline,
                         lineSchedules[lineId].currentDate)

\* l is ranked strictly above m: higher rate, then shorter setup, then more
\* capacity left
rankedAbove(l, m) ==
  LET rl == rateOf(state, l, referenceInTurn)
      rm == rateOf(state, m, referenceInTurn)
  IN \/ rl > rm
     \/ rl = rm /\ setupTimeTo(l) < setupTimeTo(m)
     \/ rl = rm /\ setupTimeTo(l) = setupTimeTo(m)
                /\ remainingCapacityOf(l) > remainingCapacityOf(m)

topRanked == {l \in candidateLines : \A m \in candidateLines : ~rankedAbove(m, l)}

\* neither the sticky line nor the preferred line qualifies
fallbackCase ==
  /\ pc = "while"
  /\ ~stickyLineHolds
  /\ preferredLines(referenceInTurn) \cap candidateLines = {}
  /\ candidateLines # {}

\* C22: in the fallback case the selected line is the first of the candidate
\* lines in the ranking by rate descending, setup time ascending and remaining
\* capacity descending; a line without a Throughput entry or without capacity
\* left before the deadline is never selected.
C22_FallbackRanking ==
  /\ fallbackCase => selectedLine \in topRanked
  /\ (pc = "while" /\ selectedLine # 0) => selectedLine \in candidateLines

----------------------------------------------------------------------------
(* C23 *)

\* the pass in turn cannot fit the setup block of the selected line
setupDoesNotFit ==
  /\ pc = "while"
  /\ \E w \in 1..Len(pass.warnings) : pass.warnings[w].kind = "CannotFitSetup"

\* C23: when the setup block cannot be fitted on the selected line and another
\* line compatible with the reference has capacity left before the effective
\* deadline, the demand is not given up: the loop of the demand goes on to
\* that line.
C23_SetupFailureTriesAnotherLine ==
  (/\ setupDoesNotFit
   /\ candidateLines \ {selectedLine} # {})
  => ~pass.stop

----------------------------------------------------------------------------
(* C24 *)

\* the effective deadline of the k-th demand processed: its deadline, or the
\* end of the week when it has none or a later one
effectiveDeadlineOf(k) ==
  IF hasDeadline(sortedDemands[k]) /\ sortedDemands[k].deadline < endDate
  THEN sortedDemands[k].deadline ELSE endDate

\* C24: no block is dated after the effective deadline of the demand it was
\* placed for, and a placement that fails emits no block.
C24_NoItemAfterDeadline ==
  \A i \in itemIndexes :
    addDays(0, planItems[i].date) <= effectiveDeadlineOf(planItems[i].demand)

\* a finished run in which a setup block did not fit on the cursor day and was
\* moved to a later day before the deadline, and another setup did not fit
\* before the deadline at all
C24_Witness ==
  /\ finished
  /\ \E i \in itemIndexes :
       /\ planItems[i].isSetup /\ planItems[i].duration > 0
       /\ planItems[i].startTime = planItems[i].date * 24
       /\ \E j \in 1..(i - 1) :
            /\ planItems[j].lineId = planItems[i].lineId
            /\ planItems[j].date < planItems[i].date
  /\ \E w \in 1..Len(warnings) : warnings[w].kind = "CannotFitSetup"

----------------------------------------------------------------------------
(* C25 *)

\* hours of the blocks emitted before the i-th block on its line and day
hoursPlacedBefore(i) ==
  sumSeq([j \in 1..(i - 1) |->
            IF planItems[j].lineId = planItems[i].lineId
               /\ planItems[j].date = planItems[i].date
            THEN planItems[j].duration ELSE 0])

\* the cursor hour of every line is the hours recorded as used on its cursor day
cursorHourIsUsedHours ==
  \A l \in DOMAIN lineSchedules :
    lineSchedules[l].currentHour
      = usedHoursOn(lineSchedules[l], getDateKey(lineSchedules[l].currentDate))

\* C25: every block starts at the hour offset equal to the hours of the blocks
\* already placed on its line and day and ends at its start plus its duration,
\* and the cursor hour of a line is the hours used on its cursor day.
C25_BlocksBackToBack ==
  /\ \A i \in itemIndexes :
       /\ planItems[i].startTime * Scale
            = planItems[i].date * 24 * Scale + hoursPlacedBefore(i)
       /\ planItems[i].endTime * Scale
            = planItems[i].startTime * Scale + planItems[i].duration
  /\ cursorHourIsUsedHours

\* the blocks as the time stamps show them: whole hours only
StampsInWholeHours ==
  \A i \in itemIndexes :
    /\ planItems[i].startTime
         = planItems[i].date * 24 + (hoursPlacedBefore(i) \div Scale)
    /\ planItems[i].endTime
         = planItems[i].startTime + (planItems[i].duration \div Scale)

----------------------------------------------------------------------------
(* C26 *)

\* C26: a placement that fails leaves the line as it was: when the setup
\* block of a pass cannot be placed before the deadline and no block is
\* emitted, the cursors and the used hours of the lines are those before the
\* pass.
C26_FailedPlacementKeepsCursor ==
  (setupDoesNotFit /\ pass.items = <<>>) => pass.schedules = lineSchedules

----------------------------------------------------------------------------
(* C27 *)

\* the step deletes the line id / the reference id from the store
lineDeleted(id) ==
  /\ pc = "idle" /\ pc' = "idle"
  /\ id \in seqRange(state.lines) /\ id \notin seqRange(state'.lines)

referenceDeleted(id) ==
  /\ pc = "idle" /\ pc' = "idle"
  /\ id \in seqRange(state.references) /\ id \notin seqRange(state'.references)

\* the plan items of a stored plan that do not refer to a line / a reference
itemsOffLine(items, id) ==
  LET kept(p) == p.lineId # id IN SelectSeq(items, kept)

itemsOffReference(items, id) ==
  LET kept(p) == p.referenceId # id IN SelectSeq(items, kept)

demandsOffReference(demands, id) ==
  LET kept(d) == d.referenceId # id IN SelectSeq(demands, kept)

\* C27: a step that deletes a line or a reference leaves no throughput,
\* availability, setup-time, demand or plan-item record that refers to the
\* deleted id, and keeps every record that does not refer to it.
C27_DeleteRemovesRelatedData ==
  [][/\ \A id \in LineIds : lineDeleted(id) =>
         /\ state'.throughputs = {t \in state.throughputs : t.lineId # id}
         /\ state'.availabilities = {a \in state.availabilities : a.lineId # id}
         /\ state'.setupTimes = {u \in state.setupTimes : u.lineId # id}
         /\ state'.planItems = itemsOffLine(state.planItems, id)
         /\ state'.demands = state.demands
         /\ state'.references = state.references
     /\ \A id \in RefIds : referenceDeleted(id) =>
         /\ state'.throughputs = {t \in state.throughputs : t.referenceId # id}
         /\ state'.setupTimes = {u \in state.setupTimes :
                                   u.fromReferenceId # id /\ u.toReferenceId # id}
         /\ state'.demands = demandsOffReference(state.demands, id)
         /\ state'.planItems = itemsOffReference(state.planItems, id)
         /\ state'.availabilities = state.availabilities
         /\ state'.lines = state.lines]_vars

\* what deleteLine and deleteReference do remove and keep: the throughput,
\* availability and setup-time records
DeleteRemovesConfiguration ==
  [][/\ \A id \in LineIds : lineDeleted(id) =>
         /\ state'.throughputs = {t \in state.throughputs : t.lineId # id}
         /\ state'.availabilities = {a \in state.availabilities : a.lineId # id}
         /\ state'.setupTimes = {u \in state.setupTimes : u.lineId # id}
     /\ \A id \in RefIds : referenceDeleted(id) =>
         /\ state'.throughputs = {t \in state.throughputs : t.referenceId # id}
         /\ state'.setupTimes = {u \in state.setupTimes :
                                   u.fromReferenceId # id /\ u.toReferenceId # id}
         /\ state'.availabilities = state.availabilities]_vars

----------------------------------------------------------------------------
(* C30 *)

\* C30: when handleGeneratePlan has stored the result of a call, the stored
\* plan is the plan the call returned and the stored diagnostics are its
\* errors and warnings, also when the call returned an empty plan.
C30_StoredPlanIsLatestResult ==
  [][(pc = "done" /\ pc' = "idle") =>
       /\ state'.planItems = planItems
       /\ state'.planErrors = errors
       /\ state'.planWarnings = warnings]_vars

\* the diagnostics alone are always those of the latest call
StoredDiagnosticsAreLatest ==
  [][(pc = "done" /\ pc' = "idle") =>
       /\ state'.planErrors = errors
       /\ state'.planWarnings = warnings]_vars

----------------------------------------------------------------------------
(* C28 *)

\* C28: every block, production or setup, is on a line that has a Throughput
\* entry for the reference of the block.
C28_BlocksOnlyOnCompatibleLines ==
  \A i \in itemIndexes :
    \E t \in state.throughputs :
      t.lineId = planItems[i].lineId /\ t.referenceId = planItems[i].referenceId

\* a finished run with a production block and a setup block of a reference
\* for which another line with hours in the week has no Throughput entry
C28_Witness ==
  /\ finished
  /\ \E i, j \in itemIndexes :
       /\ planItems[i].isSetup /\ ~planItems[j].isSetup
       /\ planItems[i].referenceId = planItems[j].referenceId
       /\ \E l \in seqRange(state.lines) :
            /\ l # planItems[j].lineId
            /\ \E a \in state.availabilities : a.lineId = l /\ a.hoursAvailable > 0
            /\ \A t \in state.throughputs :
                 t.lineId = l => t.referenceId # planItems[j].referenceId

----------------------------------------------------------------------------
(* C29 *)

\* the blocks emitted after the i-th block on its line
laterOnLine(i) ==
  {j \in itemIndexes : j > i /\ planItems[j].lineId = planItems[i].lineId}

\* C29: in the plan a run returns, every setup block is followed, as the next
\* block of its line, by a production block of the reference it sets up.
C29_NoOrphanSetup ==
  finished =>
    \A i \in itemIndexes :
      planItems[i].isSetup =>
        \E j \in laterOnLine(i) :
          /\ \A k \in laterOnLine(i) : j <= k
          /\ ~planItems[j].isSetup
          /\ planItems[j].referenceId = planItems[i].referenceId

====
